---- MODULE Spec2Model ----
(***************************************************************************)
(* A model of es-distributed-lock (lock.go): a lease-based lock kept as    *)
(* one Elasticsearch document per lock id.                                 *)
(*                                                                         *)
(* Two Lock instances with different owners share the document of one id.  *)
(* The caller of the first one also uses KeepAlive, so that instance has a *)
(* timer and the callbacks the timer started; the caller of the second one *)
(* only acquires, with one ttl, and releases.                              *)
(*                                                                         *)
(* Time is a discrete clock whose unit is the millisecond of the clamp in  *)
(* KeepAlive.  Acquire is two steps, the request and the store's answer,   *)
(* with the mutex held in between: the round trip may take any number of   *)
(* units and other instances may reach the store meanwhile.  A due timer   *)
(* and the code between two mutex sections of a callback take no time.     *)
(* release is one step, taken when the store runs the delete.              *)
(*                                                                         *)
(* last records the call that returned in the step just taken (to a caller *)
(* or inside a timer callback) and what the store answered; phase records  *)
(* what a caller has decided to do next.  Neither is read by the program.  *)
(*                                                                         *)
(* Spec is the two instances over a bounded clock.  ChainSpec is the first *)
(* instance alone over an unbounded time, with cancellation of its context *)
(* and with a caller that may watch a chain or stop after a Release, under *)
(* weak fairness of the clock, the store's answers and the timer.          *)
(* LeaseSpec is the first instance alone over the bounded clock, with a    *)
(* caller that also acquires with a ttl longer than the others.            *)
(***************************************************************************)
EXTENDS Integers, FiniteSets, Sequences, Bags, TLC

\* ---------------------------------------------------------------- bounds
MaxTime == 3          \* the clock runs from StartTime to MaxTime
MaxCallbacks == 1     \* timer callbacks of one instance that may be in progress at once

\* ------------------------------------------------------------- constants
ZeroTime == 0         \* the zero time.Time of a Lock that never called Acquire
StartTime == 1        \* the instant at which the instances are constructed
MinDelay == 1         \* timeLeft = 1 * time.Millisecond

Locks == {"lock", "lock2"}
Chained == {"lock"}   \* the instance whose caller uses KeepAlive
Owner(l) == IF l = "lock" THEN "client0" ELSE "client1"
TTLs(l) == IF l \in Chained THEN {1, 2} ELSE {2}
BeforeExpiries == {1, 2}
LongTTL == 3          \* a ttl longer than the others, for a lease that is shortened later

NoDoc == [owner |-> "none", acquired |-> ZeroTime, expires |-> ZeroTime]
NoCall == [by |-> "none", lock |-> "none", op |-> "none", arg |-> 0,
           answer |-> "none", err |-> "none"]
Watching == {"ontime", "late", "slow"}

VARIABLES
    now,             \* time.Now()
    doc,             \* the document of the lock id in the index, or NoDoc
    lastTTL,         \* lock.lastTTL
    Acquired,        \* lock.Acquired
    Expires,         \* lock.Expires
    isAcquired,      \* lock.isAcquired
    isReleased,      \* lock.isReleased
    keepAliveActive, \* lock.keepAliveActive
    mutex,           \* who holds lock.mutex across the store round trip of Acquire
    timers,          \* the pending time.AfterFunc timers of the instance
    callbacks,       \* the timer callbacks in progress, a bag of [stage, be, ttl]
    ctxDone,         \* the context passed to Acquire and KeepAlive is cancelled
    phase,           \* what the caller of the instance still does (see Watch, Stop)
    last             \* the call that returned in the last step, if any

vars == <<now, doc, lastTTL, Acquired, Expires, isAcquired, isReleased,
          keepAliveActive, mutex, timers, callbacks, ctxDone, phase, last>>

fields == <<lastTTL, Acquired, Expires>>
flags == <<isAcquired, isReleased>>

\* ------------------------------------------------------------ NewLock
NewLock ==
    /\ lastTTL = [l \in Locks |-> 0]
    /\ Acquired = [l \in Locks |-> ZeroTime]
    /\ Expires = [l \in Locks |-> ZeroTime]
    /\ isAcquired = [l \in Locks |-> FALSE]
    /\ isReleased = [l \in Locks |-> FALSE]
    /\ keepAliveActive = [l \in Locks |-> FALSE]
    /\ mutex = [l \in Locks |-> "free"]

Init ==
    /\ now = StartTime
    /\ doc = NoDoc
    /\ NewLock
    /\ timers = [l \in Locks |-> {}]
    /\ callbacks = [l \in Locks |-> EmptyBag]
    /\ ctxDone = [l \in Locks |-> FALSE]
    /\ phase = [l \in Locks |-> "free"]
    /\ last = NoCall

\* ------------------------------------------------------------ the store
\* The parameters of the update script and the upsert document, both built
\* from the instance's fields while Acquire holds the mutex.  The two
\* time.Now() reads of Acquire fall in the same clock unit.
Params(l) ==
    [now |-> Acquired[l], owner |-> Owner(l),
     expires |-> Expires[l], acquired |-> Acquired[l]]

UpsertDoc(l) ==
    [owner |-> Owner(l), acquired |-> Acquired[l], expires |-> Expires[l]]

IsAfter(t, u) == t > u

IsBefore(t, u) == t < u

\* Script without the rejection: any owner overwrites an unexpired lease.
Script_NoRejection(src, p) ==
    [op |-> "index",
     source |-> [owner |-> p.owner,
                 acquired |-> IF src.owner # p.owner THEN p.acquired ELSE src.acquired,
                 expires |-> p.expires]]

\* Script with !isBefore for isAfter: a lease that expires at now is not taken over.
Script_NotBefore(src, p) ==
    IF src.owner # p.owner /\ ~IsBefore(src.expires, p.now)
    THEN [op |-> "none", source |-> src]
    ELSE [op |-> "index",
          source |-> [owner |-> p.owner,
                      acquired |-> IF src.owner # p.owner THEN p.acquired
                                   ELSE src.acquired,
                      expires |-> p.expires]]

\* Script that sets acquired on every update, a renewal included.
Script_ResetsAcquired(src, p) ==
    IF src.owner # p.owner /\ IsAfter(src.expires, p.now)
    THEN [op |-> "none", source |-> src]
    ELSE [op |-> "index",
          source |-> [owner |-> p.owner, acquired |-> p.acquired,
                      expires |-> p.expires]]

\* Script that compares the stored expires with params.expires for params.now.
Script_ExpiresParam(src, p) ==
    IF src.owner # p.owner /\ IsAfter(src.expires, p.expires)
    THEN [op |-> "none", source |-> src]
    ELSE [op |-> "index",
          source |-> [owner |-> p.owner,
                      acquired |-> IF src.owner # p.owner THEN p.acquired
                                   ELSE src.acquired,
                      expires |-> p.expires]]

\* The painless script: ctx.op = "none", or the updated _source.
Script(src, p) ==
    IF src.owner # p.owner /\ IsAfter(src.expires, p.now)
    THEN [op |-> "none", source |-> src]
    ELSE [op |-> "index",
          source |-> [owner |-> p.owner,
                      acquired |-> IF src.owner # p.owner THEN p.acquired
                                   ELSE src.acquired,
                      expires |-> p.expires]]

\* Update().Script(script).Upsert(lock).ScriptedUpsert(true): the script runs
\* on the stored document, or on the upsert document when there is none.
Update(d, l) ==
    LET r == Script(IF d = NoDoc THEN UpsertDoc(l) ELSE d, Params(l))
    IN  IF r.op = "none" THEN [result |-> "noop", doc |-> d]
        ELSE [result |-> IF d = NoDoc THEN "created" ELSE "updated",
              doc |-> r.source]

\* DeleteByQuery without the owner term.
DeleteByQuery_IdOnly(d, l) ==
    IF d # NoDoc THEN [deleted |-> 1, doc |-> NoDoc] ELSE [deleted |-> 0, doc |-> d]

\* DeleteByQuery with _id = lock.ID and owner.keyword = lock.Owner.
DeleteByQuery(d, l) ==
    IF d # NoDoc /\ d.owner = Owner(l)
    THEN [deleted |-> 1, doc |-> NoDoc]
    ELSE [deleted |-> 0, doc |-> d]

\* What the store may answer to an update made with the instance's context:
\* it runs the script, reports a version conflict, or the call fails.
StoreAnswers == {"ok", "conflict", "error"}
Outcomes(l) == IF ctxDone[l] THEN {"error"} ELSE StoreAnswers

Returned(by, l, op, arg, answer, err) ==
    [by |-> by, lock |-> l, op |-> op, arg |-> arg, answer |-> answer, err |-> err]

\* ------------------------------------------------------------ Acquire
\* Lines 59-82: take the mutex, set the fields, build the request.
AcquireBegin(l, who, ttl) ==
    /\ mutex[l] = "free"
    /\ mutex' = [mutex EXCEPT ![l] = who]
    /\ lastTTL' = [lastTTL EXCEPT ![l] = ttl]
    /\ Acquired' = [Acquired EXCEPT ![l] = now]
    /\ Expires' = [Expires EXCEPT ![l] = now + ttl]
    /\ last' = NoCall

\* Lines 84-89.
AcquireErr(l, outcome) ==
    IF outcome = "conflict" \/ (outcome = "ok" /\ Update(doc, l).result = "noop")
    THEN "HeldByOther"
    ELSE IF outcome # "ok" THEN "StoreError" ELSE "nil"

\* Lines 83-92: the store answers, the flags are set, the mutex is released.
AcquireEnd(l, outcome) ==
    /\ mutex[l] # "free"
    /\ outcome \in Outcomes(l)
    /\ mutex' = [mutex EXCEPT ![l] = "free"]
    /\ doc' = IF outcome = "ok" THEN Update(doc, l).doc ELSE doc
    /\ IF AcquireErr(l, outcome) = "nil"
       THEN /\ isAcquired' = [isAcquired EXCEPT ![l] = TRUE]
            /\ isReleased' = [isReleased EXCEPT ![l] = FALSE]
       ELSE UNCHANGED flags
    /\ last' = Returned(mutex[l], l, "Acquire", lastTTL[l], outcome,
                        AcquireErr(l, outcome))

\* A caller calls Acquire(ctx, ttl).
Acquire(l, ttl) ==
    /\ phase[l] = "free"
    /\ AcquireBegin(l, "caller", ttl)
    /\ UNCHANGED <<now, doc, flags, keepAliveActive, timers, callbacks, ctxDone, phase>>

\* The caller's Acquire returns.
AcquireReturn(l, outcome) ==
    /\ mutex[l] = "caller"
    /\ AcquireEnd(l, outcome)
    /\ UNCHANGED <<now, fields, keepAliveActive, timers, callbacks, ctxDone, phase>>

\* ------------------------------------------------------------ release
\* release that never reports a delete of nothing.
releaseErr_NoNoop(l, errorIfNoop, outcome) ==
    IF isReleased[l]
    THEN IF errorIfNoop THEN "AlreadyReleased" ELSE "nil"
    ELSE IF outcome # "ok" THEN "StoreError" ELSE "nil"

\* release that reports a released instance whatever errorIfNoop is.
releaseErr_Strict(l, errorIfNoop, outcome) ==
    IF isReleased[l] THEN "AlreadyReleased"
    ELSE IF outcome # "ok" THEN "StoreError"
    ELSE IF errorIfNoop /\ DeleteByQuery(doc, l).deleted = 0 THEN "NoEffect"
    ELSE "nil"

\* Lines 134-155: what release returns.
releaseErr(l, errorIfNoop, outcome) ==
    IF isReleased[l]
    THEN IF errorIfNoop THEN "AlreadyReleased" ELSE "nil"
    ELSE IF outcome # "ok" THEN "StoreError"
    ELSE IF errorIfNoop /\ DeleteByQuery(doc, l).deleted = 0 THEN "NoEffect"
    ELSE "nil"

\* Lines 131-156.  The delete is made with context.Background().
release(l, errorIfNoop, outcome) ==
    /\ phase[l] # "released"
    /\ mutex[l] = "free"
    /\ IF isReleased[l] \/ outcome # "ok"
       THEN UNCHANGED <<doc, flags>>
       ELSE /\ doc' = DeleteByQuery(doc, l).doc
            /\ isReleased' = [isReleased EXCEPT ![l] = TRUE]
            /\ isAcquired' = [isAcquired EXCEPT ![l] = FALSE]
    /\ last' = Returned("caller", l, IF errorIfNoop THEN "MustRelease" ELSE "Release",
                        0, IF isReleased[l] THEN "none" ELSE outcome,
                        releaseErr(l, errorIfNoop, outcome))
    /\ phase' = [phase EXCEPT ![l] = "free"]
    /\ UNCHANGED <<now, fields, keepAliveActive, mutex, timers, callbacks, ctxDone>>

Release(l, outcome) == release(l, FALSE, outcome)

MustRelease(l, outcome) == release(l, TRUE, outcome)

\* ------------------------------------------------------------ status
IsAcquired(l) == isAcquired[l] /\ IsAfter(Expires[l], now)

IsReleased(l) == isReleased[l] \/ IsBefore(Expires[l], now)

\* ------------------------------------------------------------ KeepAlive
\* KeepAlive that tests keepAliveActive before isAcquired.
KeepAliveErr_ActiveFirst(l, beforeExpiry) ==
    IF keepAliveActive[l] THEN "nil"
    ELSE IF ~isAcquired[l] THEN "NotAcquired"
    ELSE IF beforeExpiry >= lastTTL[l] THEN "InvalidWindow"
    ELSE "nil"

\* Lines 102-110: the three early returns.
KeepAliveErr(l, beforeExpiry) ==
    IF ~isAcquired[l] THEN "NotAcquired"
    ELSE IF keepAliveActive[l] THEN "nil"
    ELSE IF beforeExpiry >= lastTTL[l] THEN "InvalidWindow"
    ELSE "nil"

\* KeepAlive with > for >= in the window check.
Arms_Inclusive(l, beforeExpiry) ==
    /\ isAcquired[l]
    /\ ~keepAliveActive[l]
    /\ beforeExpiry <= lastTTL[l]

\* KeepAlive arms a timer when none of them is taken.
Arms(l, beforeExpiry) ==
    /\ isAcquired[l]
    /\ ~keepAliveActive[l]
    /\ beforeExpiry < lastTTL[l]

\* timeLeft without the clamp: a delay that is not positive is kept.
TimeLeft_NoClamp(l, beforeExpiry) == (Expires[l] - beforeExpiry) - now

\* timeLeft without beforeExpiry: the timer fires when the lease expires.
TimeLeft_AtExpiry(l, beforeExpiry) ==
    LET timeLeft == Expires[l] - now
    IN  IF timeLeft <= 0 THEN MinDelay ELSE timeLeft

\* Lines 113-116.
TimeLeft(l, beforeExpiry) ==
    LET timeLeft == (Expires[l] - beforeExpiry) - now
    IN  IF timeLeft <= 0 THEN MinDelay ELSE timeLeft

Timer(l, beforeExpiry) == [at |-> now + TimeLeft(l, beforeExpiry), be |-> beforeExpiry]

\* Lines 100-128, by a caller or by a timer callback.
KeepAliveBody(l, by, beforeExpiry) ==
    /\ mutex[l] = "free"
    /\ IF Arms(l, beforeExpiry)
       THEN /\ keepAliveActive' = [keepAliveActive EXCEPT ![l] = TRUE]
            /\ timers' = [timers EXCEPT ![l] = @ \cup {Timer(l, beforeExpiry)}]
       ELSE UNCHANGED <<keepAliveActive, timers>>
    /\ last' = Returned(by, l, "KeepAlive", beforeExpiry, "none",
                        KeepAliveErr(l, beforeExpiry))

\* A caller calls KeepAlive(ctx, beforeExpiry).
KeepAlive(l, beforeExpiry) ==
    /\ phase[l] = "free"
    /\ KeepAliveBody(l, "caller", beforeExpiry)
    /\ UNCHANGED <<now, doc, fields, flags, mutex, callbacks, ctxDone, phase>>

InProgress(l) == BagCardinality(callbacks[l])

Callback(stage, be, ttl) == SetToBag({[stage |-> stage, be |-> be, ttl |-> ttl]})

\* Lines 119-123: the timer fires and the callback runs its locked section.
TimerFire(l, t) ==
    /\ t \in timers[l]
    /\ t.at <= now
    /\ mutex[l] = "free"
    /\ InProgress(l) < MaxCallbacks
    /\ timers' = [timers EXCEPT ![l] = @ \ {t}]
    /\ keepAliveActive' = [keepAliveActive EXCEPT ![l] = FALSE]
    /\ callbacks' = IF isReleased[l] THEN callbacks
                    ELSE [callbacks EXCEPT ![l] = @ (+) Callback("read", t.be, 0)]
    /\ last' = NoCall
    /\ UNCHANGED <<now, doc, fields, flags, mutex, ctxDone, phase>>

\* Line 124: the callback evaluates the argument lock.lastTTL, a read made
\* without the mutex, which a concurrent Acquire may precede or follow.
CallbackReadTTL(l, c) ==
    /\ BagIn(c, callbacks[l])
    /\ c.stage = "read"
    /\ callbacks' = [callbacks EXCEPT ![l] =
           (@ (-) SetToBag({c})) (+) Callback("acquire", c.be, lastTTL[l])]
    /\ last' = NoCall
    /\ UNCHANGED <<now, doc, fields, flags, keepAliveActive, mutex, timers, ctxDone, phase>>

\* Line 124: the callback calls lock.Acquire(ctx, ttl) with the value read.
CallbackAcquire(l, c) ==
    /\ BagIn(c, callbacks[l])
    /\ c.stage = "acquire"
    /\ AcquireBegin(l, "callback", c.ttl)
    /\ callbacks' = [callbacks EXCEPT ![l] =
           (@ (-) SetToBag({c})) (+) Callback("store", c.be, 0)]
    /\ UNCHANGED <<now, doc, flags, keepAliveActive, timers, ctxDone, phase>>

\* The callback's Acquire returns; the callback drops its error.
CallbackAcquireReturn(l, c, outcome) ==
    /\ BagIn(c, callbacks[l])
    /\ c.stage = "store"
    /\ mutex[l] = "callback"
    /\ AcquireEnd(l, outcome)
    /\ callbacks' = [callbacks EXCEPT ![l] =
           (@ (-) SetToBag({c})) (+) Callback("keepalive", c.be, 0)]
    /\ UNCHANGED <<now, fields, keepAliveActive, timers, ctxDone, phase>>

\* Line 125: the callback calls lock.KeepAlive(ctx, beforeExpiry) and ends.
CallbackKeepAlive(l, c) ==
    /\ BagIn(c, callbacks[l])
    /\ c.stage = "keepalive"
    /\ KeepAliveBody(l, "callback", c.be)
    /\ callbacks' = [callbacks EXCEPT ![l] = @ (-) SetToBag({c})]
    /\ UNCHANGED <<now, doc, fields, flags, mutex, ctxDone, phase>>

\* ------------------------------------------------------------ the callers
\* The context passed to Acquire and KeepAlive is cancelled.
Cancel(l) ==
    /\ ~ctxDone[l]
    /\ ctxDone' = [ctxDone EXCEPT ![l] = TRUE]
    /\ last' = NoCall
    /\ UNCHANGED <<now, doc, fields, flags, keepAliveActive, mutex, timers, callbacks,
                   phase>>

\* The renewal instant Expires - beforeExpiry of the pending timer is still ahead.
Ahead(l, t) == Expires[l] - t.be > now

\* As TestKeepAlive does: KeepAlive has just returned nil on a held lock whose
\* chain starts with this call, and from now on the caller only watches it
\* (IsAcquired) until it releases.
Watch(l) ==
    /\ phase[l] = "free"
    /\ last.by = "caller" /\ last.lock = l /\ last.op = "KeepAlive" /\ last.err = "nil"
    /\ IsAcquired(l)
    /\ last.arg < lastTTL[l]
    /\ timers[l] = {Timer(l, last.arg)}
    /\ callbacks[l] = EmptyBag
    /\ phase' = [phase EXCEPT ![l] =
                    IF Ahead(l, Timer(l, last.arg)) THEN "ontime" ELSE "late"]
    /\ last' = NoCall
    /\ UNCHANGED <<now, doc, fields, flags, keepAliveActive, mutex, timers, callbacks,
                   ctxDone>>

\* Release() has just returned nil and the caller makes no further call.
Stop(l) ==
    /\ phase[l] = "free"
    /\ last.by = "caller" /\ last.lock = l /\ last.op = "Release" /\ last.err = "nil"
    /\ phase' = [phase EXCEPT ![l] = "released"]
    /\ last' = NoCall
    /\ UNCHANGED <<now, doc, fields, flags, keepAliveActive, mutex, timers, callbacks,
                   ctxDone>>

\* ------------------------------------------------------------ time
\* A goroutine that can take its next step does so before the clock moves:
\* a due timer whose callback can lock the mutex, and a callback about to
\* read lastTTL or to call Acquire or KeepAlive.
Runnable(l) ==
    \/ \E c \in BagToSet(callbacks[l]) : c.stage = "read"
    \/ /\ mutex[l] = "free"
       /\ \/ \E t \in timers[l] : t.at <= now /\ InProgress(l) < MaxCallbacks
          \/ \E c \in BagToSet(callbacks[l]) : c.stage \in {"acquire", "keepalive"}

\* A renewal whose store round trip lasts until no more than MinDelay is left
\* of the lease it asked for: the watching caller notes it.
Slow(l) == mutex[l] # "free" /\ now + 1 + MinDelay >= Expires[l]

Noted ==
    [l \in Locks |-> IF phase[l] \in Watching /\ Slow(l) THEN "slow" ELSE phase[l]]

Tick ==
    /\ now < MaxTime
    /\ \A l \in Locks : ~Runnable(l)
    /\ now' = now + 1
    /\ phase' = Noted
    /\ last' = NoCall
    /\ UNCHANGED <<doc, fields, flags, keepAliveActive, mutex, timers, callbacks,
                   ctxDone>>

\* At the end of the clock's range one more unit passes by moving every
\* timestamp one unit back instead: the comparisons with now are the same.
Earlier(t) == IF t > ZeroTime THEN t - 1 ELSE ZeroTime

Rebase ==
    /\ now = MaxTime
    /\ \A l \in Locks : ~Runnable(l)
    /\ doc' = IF doc = NoDoc THEN doc
              ELSE [doc EXCEPT !.acquired = Earlier(@), !.expires = Earlier(@)]
    /\ Acquired' = [l \in Locks |-> Earlier(Acquired[l])]
    /\ Expires' = [l \in Locks |-> Earlier(Expires[l])]
    /\ timers' = [l \in Locks |-> {[t EXCEPT !.at = Earlier(@)] : t \in timers[l]}]
    /\ phase' = Noted
    /\ last' = NoCall
    /\ UNCHANGED <<now, lastTTL, flags, keepAliveActive, mutex, callbacks, ctxDone>>

Stages == {"read", "acquire", "store", "keepalive"}
AllTTLs == UNION {TTLs(l) : l \in Locks} \cup {LongTTL}
Callbacks == [stage : Stages, be : BeforeExpiries, ttl : AllTTLs \cup {0}]

\* The calls a caller makes, and the returns of its Acquire.
Calls(l) ==
    \/ \E ttl \in TTLs(l) : Acquire(l, ttl)
    \/ \E o \in StoreAnswers : AcquireReturn(l, o)
    \/ \E o \in {"ok", "error"} : Release(l, o)
    \/ \E o \in {"ok", "error"} : MustRelease(l, o)

\* The steps of the timer and of its callbacks.
Chain(l) ==
    \/ \E t \in timers[l] : TimerFire(l, t)
    \/ \E c \in Callbacks : CallbackReadTTL(l, c)
    \/ \E c \in Callbacks : CallbackAcquire(l, c)
    \/ \E c \in Callbacks, o \in StoreAnswers : CallbackAcquireReturn(l, c, o)
    \/ \E c \in Callbacks : CallbackKeepAlive(l, c)

\* Two instances with different owners on one id; the first one's caller
\* uses KeepAlive.
Next ==
    \/ \E l \in Locks : Calls(l)
    \/ \E l \in Chained, be \in BeforeExpiries : KeepAlive(l, be)
    \/ \E l \in Chained : Chain(l)
    \/ Tick

Spec == Init /\ [][Next]_vars

\* One instance alone on its id, over an unbounded time: its caller may end
\* up watching a chain or stop after a Release, and its context may be
\* cancelled.
ChainNext ==
    \/ \E l \in Chained : Calls(l)
    \/ \E l \in Chained, be \in BeforeExpiries : KeepAlive(l, be)
    \/ \E l \in Chained : Chain(l)
    \/ \E l \in Chained : Cancel(l)
    \/ \E l \in Chained : Watch(l)
    \/ \E l \in Chained : Stop(l)
    \/ Tick
    \/ Rebase

\* Time passes, a store call returns, and the runtime runs a due timer and a
\* runnable callback.
ChainFairness ==
    /\ WF_vars(Tick \/ Rebase)
    /\ \A l \in Chained :
          /\ WF_vars(\E o \in StoreAnswers : AcquireReturn(l, o))
          /\ WF_vars(Chain(l))

ChainSpec == Init /\ [][ChainNext]_vars /\ ChainFairness

\* One instance alone on its id over the bounded clock, whose caller also
\* acquires with the long ttl: a timer armed for the long lease may still be
\* pending when the caller has acquired again with a shorter one.
LeaseNext ==
    \/ \E l \in Chained : Calls(l)
    \/ \E l \in Chained : Acquire(l, LongTTL)
    \/ \E l \in Chained, be \in BeforeExpiries : KeepAlive(l, be)
    \/ \E l \in Chained : Chain(l)
    \/ Tick

LeaseSpec == Init /\ [][LeaseNext]_vars

\* ================================================================ claims
Other(l) == CHOOSE o \in Locks : o # l

\* The step is the return of op on instance l (to its caller, or of the
\* Acquire or KeepAlive a timer callback made).
Returns(l, op) == last'.lock = l /\ last'.op = op

\* C1: an Acquire that reaches the store while the document has another
\* owner and expires after the request's now returns "lock held by other
\* client" and leaves the document as it was; an Acquire that returns nil
\* leaves the document with the acquirer as its owner.
C1_HeldByOther ==
    [][\A l \in Locks :
          /\ ( /\ Returns(l, "Acquire") /\ last'.answer # "error"
               /\ doc # NoDoc /\ doc.owner # Owner(l)
               /\ doc.expires > Params(l).now )
             => (last'.err = "HeldByOther" /\ doc' = doc)
          /\ (Returns(l, "Acquire") /\ last'.err = "nil") => doc'.owner = Owner(l)
      ]_vars

C1_Witness ==
    /\ last.op = "Acquire" /\ last.answer = "ok" /\ last.err = "HeldByOther"
    /\ doc.owner = Owner(Other(last.lock))
    /\ doc.expires > Acquired[last.lock]

\* C2: an Acquire that the store runs while the document has another owner
\* and expires no later than the request's now returns nil, makes the
\* acquirer the owner with acquired = the request's time and expires = that
\* time + ttl, and leaves the instance isAcquired and not isReleased.
C2_Takeover ==
    [][\A l \in Locks :
          ( /\ Returns(l, "Acquire") /\ last'.answer = "ok"
            /\ doc # NoDoc /\ doc.owner # Owner(l)
            /\ ~(doc.expires > Params(l).now) )
          => /\ last'.err = "nil"
             /\ doc' = [owner |-> Owner(l), acquired |-> Acquired[l],
                        expires |-> Acquired[l] + last'.arg]
             /\ isAcquired'[l] /\ ~isReleased'[l]
      ]_vars

C2_Witness ==
    /\ last.op = "Acquire" /\ last.err = "nil"
    /\ doc.owner = Owner(last.lock)
    /\ doc.acquired = Acquired[last.lock]
    /\ isAcquired[Other(last.lock)] /\ ~isReleased[Other(last.lock)]
    /\ Expires[Other(last.lock)] <= Acquired[last.lock]

\* C3: a Release or MustRelease by an instance that is not the owner of the
\* document leaves the document as it is, and the Release returns nil.
C3_ReleaseKeepsOthers ==
    [][\A l \in Locks :
          ( /\ Returns(l, "Release") \/ Returns(l, "MustRelease")
            /\ doc # NoDoc /\ doc.owner # Owner(l) )
          => /\ doc' = doc
             /\ (last'.op = "Release" /\ last'.answer # "error") => last'.err = "nil"
      ]_vars

C3_Witness ==
    /\ last.op = "Release" /\ last.answer = "ok" /\ last.err = "nil"
    /\ doc.owner = Owner(Other(last.lock))
    /\ Acquired[last.lock] > ZeroTime
    /\ doc.acquired >= Expires[last.lock]

\* C7: MustRelease returns an error exactly when it removed nothing; it makes
\* no store call exactly when the instance is marked released; and when the
\* delete succeeds the instance is isReleased and not isAcquired, whatever
\* the number of documents deleted.
C7_MustRelease ==
    [][\A l \in Locks :
          Returns(l, "MustRelease")
          => /\ (last'.err # "nil") <=> (doc' = doc)
             /\ (last'.answer = "none") <=> isReleased[l]
             /\ last'.answer = "none" => (last'.err = "AlreadyReleased" /\ UNCHANGED flags)
             /\ last'.answer = "ok" => (isReleased'[l] /\ ~isAcquired'[l])
      ]_vars

C7_Witness ==
    /\ last.op = "MustRelease" /\ last.answer = "ok" /\ last.err = "NoEffect"
    /\ doc.owner = Owner(Other(last.lock))
    /\ isReleased[last.lock] /\ ~isAcquired[last.lock]

\* C8: a Release whose delete does not fail returns nil; a Release on an
\* instance marked released makes no store call and changes nothing; after a
\* Release that returned nil IsAcquired() is false and IsReleased() is true.
C8_ReleaseIdempotent ==
    [][\A l \in Locks :
          Returns(l, "Release")
          => /\ last'.answer # "error" => last'.err = "nil"
             /\ isReleased[l] =>
                   /\ last'.answer = "none"
                   /\ UNCHANGED <<doc, fields, flags, keepAliveActive, mutex, timers,
                                  callbacks>>
             /\ last'.err = "nil" => (~IsAcquired(l)' /\ IsReleased(l)')
      ]_vars

C8_Witness ==
    /\ last.op = "Release" /\ last.answer = "none" /\ last.err = "nil"
    /\ lastTTL[last.lock] > 0
    /\ isReleased[last.lock]

\* C9: an Acquire that returns nil while the document's owner is the
\* acquirer changes only the document's expires, to the request's time + ttl.
C9_RenewalFrame ==
    [][\A l \in Locks :
          ( /\ Returns(l, "Acquire") /\ last'.err = "nil"
            /\ doc # NoDoc /\ doc.owner = Owner(l) )
          => doc' = [doc EXCEPT !.expires = Acquired[l] + last'.arg]
      ]_vars

C9_Witness ==
    /\ last.op = "Acquire" /\ last.err = "nil"
    /\ doc.owner = Owner(last.lock)
    /\ doc.acquired < Acquired[last.lock]
    /\ doc.expires = Expires[last.lock]

\* C10 as claimed: every KeepAlive(beforeExpiry) on an instance marked
\* acquired with beforeExpiry >= lastTTL returns the InvalidWindow error and
\* arms no timer.
C10_AlwaysInvalidWindow ==
    [][\A l \in Locks :
          (Returns(l, "KeepAlive") /\ isAcquired[l] /\ last'.arg >= lastTTL[l])
          => (last'.err = "InvalidWindow" /\ timers' = timers)
      ]_vars

\* C10: a KeepAlive(beforeExpiry) on an instance marked acquired with
\* beforeExpiry >= lastTTL arms no timer; it returns the InvalidWindow error
\* when no timer is pending (keepAliveActive is false) and nil when one is.
C10_InvalidWindow ==
    [][\A l \in Locks :
          (Returns(l, "KeepAlive") /\ isAcquired[l] /\ last'.arg >= lastTTL[l])
          => /\ timers' = timers /\ keepAliveActive' = keepAliveActive
             /\ last'.err = IF keepAliveActive[l] THEN "nil" ELSE "InvalidWindow"
      ]_vars

C10_Witness ==
    /\ last.op = "KeepAlive" /\ last.err = "InvalidWindow"
    /\ isAcquired[last.lock] /\ last.arg >= lastTTL[last.lock]
    /\ timers[last.lock] = {}

Idle(l) == timers[l] = {} /\ callbacks[l] = EmptyBag

C5_ChainEndsAfterRelease ==
    \A l \in Chained :
        [](~ctxDone[l]) => [](phase[l] = "released" => <>[]Idle(l))

\* C6: once the context is cancelled, with a caller that only watches the
\* chain, the chain comes to an end: from some point on no timer is pending
\* and no callback is in progress.
C6_ChainEndsAfterCancel ==
    \A l \in Chained : <>[](ctxDone[l] /\ phase[l] \in Watching) => <>[]Idle(l)

\* C11: a KeepAlive on an instance whose isAcquired flag is not set (before
\* any successful Acquire, or after a Release) returns the NotAcquired error,
\* arms no timer and leaves the fields and flags of the instance, and the
\* document, as they were.
C11_NotAcquired ==
    [][\A l \in Chained :
          (Returns(l, "KeepAlive") /\ ~isAcquired[l])
          => /\ last'.err = "NotAcquired"
             /\ UNCHANGED <<doc, fields, flags, keepAliveActive, mutex, timers>>
      ]_vars

C11_Witness ==
    /\ last.by = "caller" /\ last.op = "KeepAlive" /\ last.err = "NotAcquired"
    /\ isReleased[last.lock] /\ ~isAcquired[last.lock]
    /\ keepAliveActive[last.lock] /\ timers[last.lock] # {}

\* C12: in every reachable state at most one keep-alive timer is pending per
\* instance and at most one renewal chain (a pending timer, or a timer
\* callback in progress) exists.
C12_OneChain ==
    \A l \in Chained :
        /\ Cardinality(timers[l]) <= 1
        /\ Cardinality(timers[l]) + InProgress(l) <= 1

\* The renewal instant Expires - beforeExpiry has passed when KeepAlive is called.
Late(l, beforeExpiry) == Expires[l] - beforeExpiry <= now

\* C13 as claimed: every KeepAlive(beforeExpiry) with beforeExpiry < lastTTL
\* on an instance marked acquired whose renewal instant has passed returns
\* nil and arms a timer with the delay MinDelay; and a renewal that the store
\* runs while no other owner has the document returns nil and leaves the
\* instance acquired for as long as the renewed lease lasts.
C13_AlwaysArms ==
    [][\A l \in Chained :
          /\ ( /\ Returns(l, "KeepAlive") /\ isAcquired[l]
               /\ last'.arg < lastTTL[l] /\ Late(l, last'.arg) )
             => /\ last'.err = "nil"
                /\ timers'[l] # timers[l]
                /\ timers'[l] = timers[l] \cup {[at |-> now + MinDelay, be |-> last'.arg]}
          /\ ( /\ Returns(l, "Acquire") /\ last'.by = "callback" /\ last'.answer = "ok"
               /\ (doc = NoDoc \/ doc.owner = Owner(l)) )
             => /\ last'.err = "nil"
                /\ isAcquired'[l] /\ ~isReleased'[l]
                /\ IsAcquired(l)' <=> Expires[l] > now
      ]_vars

\* C13: such a KeepAlive returns nil; when no timer is pending
\* (keepAliveActive is false) it arms one with the delay MinDelay, and when
\* one is pending it arms none.  A renewal that the store runs while no other
\* owner has the document returns nil and leaves the instance acquired for
\* as long as the renewed lease lasts.
C13_LateKeepAlive ==
    [][\A l \in Chained :
          /\ ( /\ Returns(l, "KeepAlive") /\ isAcquired[l]
               /\ last'.arg < lastTTL[l] /\ Late(l, last'.arg) )
             => /\ last'.err = "nil"
                /\ keepAliveActive'[l]
                /\ timers'[l] = IF keepAliveActive[l] THEN timers[l]
                                ELSE timers[l] \cup {[at |-> now + MinDelay,
                                                      be |-> last'.arg]}
          /\ ( /\ Returns(l, "Acquire") /\ last'.by = "callback" /\ last'.answer = "ok"
               /\ (doc = NoDoc \/ doc.owner = Owner(l)) )
             => /\ last'.err = "nil"
                /\ isAcquired'[l] /\ ~isReleased'[l]
                /\ IsAcquired(l)' <=> Expires[l] > now
      ]_vars

C13_Witness ==
    /\ last.by = "caller" /\ last.op = "KeepAlive" /\ last.err = "nil"
    /\ isAcquired[last.lock] /\ ~IsAcquired(last.lock)
    /\ last.arg < lastTTL[last.lock]
    /\ timers[last.lock] = {[at |-> now + MinDelay, be |-> last.arg]}

\* The document is the one the instance's last successful Acquire wrote or
\* renewed, and no Acquire of the instance is in progress.
Holds(l) ==
    /\ isAcquired[l] /\ mutex[l] = "free"
    /\ doc # NoDoc /\ doc.owner = Owner(l)

\* C14: in every state of an instance that holds the document, Expires is the
\* expiry its last successful Acquire set (the time of that Acquire plus its
\* ttl, which is what the document records): an Acquire that failed since
\* has not left another value.
C14_ExpiresOfLastSuccess ==
    \A l \in Locks : Holds(l) => Expires[l] = doc.expires

\* C15: IsReleased() is true if and only if the released flag is set or
\* Expires is not after the current time, and IsAcquired() is true if and only
\* if the acquired flag is set and Expires is after the current time, whenever
\* the queries can take the mutex.
C15_StatusQueries ==
    \A l \in Locks :
        mutex[l] = "free" =>
            /\ IsReleased(l) <=> (isReleased[l] \/ ~(Expires[l] > now))
            /\ IsAcquired(l) <=> (isAcquired[l] /\ Expires[l] > now)

\* C16: while the instance holds the document, its Acquired field is the
\* acquired value of the document: only an Acquire that changed the
\* ownership has set it.
C16_AcquiredOfOwnership ==
    \A l \in Locks : Holds(l) => Acquired[l] = doc.acquired

\* C18: at no instant do two instances with different owners, neither of them
\* inside an Acquire, both return true from IsAcquired().
C18_MutualExclusion ==
    \A l1, l2 \in Locks :
        (Owner(l1) # Owner(l2) /\ mutex[l1] = "free" /\ mutex[l2] = "free")
        => ~(IsAcquired(l1) /\ IsAcquired(l2))

\* C17: whatever the outcome of the renewal, the KeepAlive a timer callback
\* makes on an instance that is not marked released leaves a timer pending
\* with the callback's beforeExpiry: the chain ends only through a Release.
C17_RearmsAlways ==
    [][\A l \in Chained :
          (Returns(l, "KeepAlive") /\ last'.by = "callback" /\ ~isReleased[l])
          => \E t \in timers'[l] : t.be = last'.arg
      ]_vars

\* C19: the owner of an existing document changes only in the step in which
\* the store runs the Acquire of the new owner, and only when the document's
\* expires is not after that request's now; and an existing document
\* disappears only by a release of its owner.
C19_OwnerChange ==
    [][/\ (doc # NoDoc /\ doc' # NoDoc /\ doc'.owner # doc.owner)
          => \E l \in Locks :
                /\ Returns(l, "Acquire") /\ last'.err = "nil"
                /\ doc'.owner = Owner(l)
                /\ ~(doc.expires > Params(l).now)
       /\ (doc # NoDoc /\ doc' = NoDoc)
          => \E l \in Locks :
                /\ Returns(l, "Release") \/ Returns(l, "MustRelease")
                /\ doc.owner = Owner(l)
      ]_vars

C19_Witness ==
    /\ last.by = "caller" /\ last.op = "Acquire" /\ last.err = "nil"
    /\ doc = [owner |-> Owner(last.lock), acquired |-> Acquired[last.lock],
              expires |-> Expires[last.lock]]
    /\ Acquired[Other(last.lock)] > ZeroTime
    /\ isAcquired[Other(last.lock)] /\ ~isReleased[Other(last.lock)]
    /\ Expires[Other(last.lock)] = Acquired[last.lock]
    /\ now > Acquired[last.lock]

Max(a, b) == IF a >= b THEN a ELSE b

\* C20: whenever KeepAlive(beforeExpiry) returns nil, a timer is pending for
\* the instance that fires no later than MinDelay after the later of now and
\* Expires - beforeExpiry.
C20_TimerInTime ==
    [][\A l \in Chained :
          (Returns(l, "KeepAlive") /\ last'.err = "nil")
          => \E t \in timers'[l] :
                t.at <= Max(now, Expires[l] - last'.arg) + MinDelay
      ]_vars
====
